---- MODULE Spec2Model ----
(***************************************************************************)
(* InstaForms backend (api/models.py, api/serializers.py, api/views.py):   *)
(* the four tables Form, FormField, FormSubmission and FieldResponse, the  *)
(* serializers that validate request bodies, and the viewsets that serve   *)
(* the owner-scoped and the public surface.                                *)
(*                                                                         *)
(* Every request but the public submit is one step.  The public submit is  *)
(* a sequence of steps (look-up and validation, the INSERT of the          *)
(* submission row, one INSERT per response row), because the code runs     *)
(* them as separate autocommitted statements and other requests can run    *)
(* in between.                                                             *)
(*                                                                         *)
(* Registration and profile updates (the auth_user table) are handled by   *)
(* two workers, each request in steps: validation, then the write.         *)
(***************************************************************************)
EXTENDS Integers, Sequences, FiniteSets, TLC

VARIABLES
    forms,        \* rows of api_form
    fields,       \* rows of api_formfield
    submissions,  \* rows of api_formsubmission
    responses,    \* rows of api_fieldresponse
    seq_ids,      \* the next value of each table's auto-increment id
    req,          \* the public submit request in flight (locals of submit/create)
    response,     \* the HTTP response produced by the latest step
    users,        \* rows of auth_user
    auth          \* the account request each server worker is handling

vars == <<forms, fields, submissions, responses, seq_ids, req, response, users, auth>>

----------------------------------------------------------------------------
(* Bounds of the model *)

MaxForms == 2          \* forms ever created
MaxFields == 2         \* fields ever created
MaxSubmissions == 1    \* submission rows ever created
MaxPayload == 2        \* entries in a submit payload
MaxValueLen == 1       \* characters in a submitted value
MaxUsers == 4          \* auth_user rows ever created

----------------------------------------------------------------------------
(* Optional values (None / a value) *)

None == {}
Some(x) == {x}

----------------------------------------------------------------------------
(* Identities and inputs *)

Users == {"alice", "bob"}
Anonymous == "anonymous"

\* an email address as its local part and its domain
Email(local, domain) == [local |-> local, domain |-> domain]

\* the auth_user rows of the two users
Accounts ==
    {[id |-> 1, username |-> "alice", email |-> Email("alice", "x.org")],
     [id |-> 2, username |-> "bob", email |-> Email("bob", "x.org")]}

\* the server's workers: each handles one account request at a time
Workers == {"w1", "w2"}

\* a worker with no account request
AuthIdle ==
    [pc |-> "idle", op |-> "none", user |-> 0, email |-> Email("", ""),
     username |-> "", status |-> 0]

Chars == {" ", "a", "1"}
Digits == {"1"}

Values == UNION {[1..n -> Chars] : n \in 0..MaxValueLen}

\* str.strip() as serializers.CharField applies it (trim_whitespace=True)
RECURSIVE LStrip(_)
LStrip(v) == IF v # <<>> /\ Head(v) = " " THEN LStrip(Tail(v)) ELSE v

RECURSIVE RStrip(_)
RStrip(v) ==
    IF v # <<>> /\ v[Len(v)] = " " THEN RStrip(SubSeq(v, 1, Len(v) - 1)) ELSE v

Strip(v) == RStrip(LStrip(v))

\* the field types of FormField.FIELD_TYPES
FIELD_TYPES ==
    {"text", "email", "number", "textarea", "select", "radio", "checkbox",
     "date", "file"}

\* form ids a request may name: every id ever issued and one never issued
FormPks == 1..(MaxForms + 1)
FieldPks == 1..(MaxFields + 1)

\* request bodies of POST/PUT/PATCH /api/forms/: dicts over title, is_active
FormData ==
    { [title |-> "Survey", is_active |-> TRUE],
      [title |-> "Survey", is_active |-> FALSE],
      [title |-> "Survey", created_by |-> "bob"],
      [title |-> ""],
      [is_active |-> TRUE],
      [is_active |-> FALSE] }

\* request bodies of add_field and of PUT/PATCH /api/fields/{id}/
FieldData ==
    { [label |-> "Name", field_type |-> "text", required |-> TRUE, order |-> 1],
      [label |-> "Age", field_type |-> "number", order |-> 2],
      [label |-> "Color", field_type |-> "select", order |-> 1],
      [label |-> "Color", field_type |-> "select", options |-> Some(<< <<"a">> >>),
       order |-> 1],
      [label |-> "Color", field_type |-> "bogus", order |-> 1],
      [order |-> 1] }

\* payloads of POST /api/public/forms/{id}/submit/
Entries == [field_id : FieldPks, value : Values]
Payloads == UNION {[1..n -> Entries] : n \in 0..MaxPayload}

Has(data, key) == key \in DOMAIN data

\* request.data of a submit: the responses list alone, as the API documents it
RequestData == {[responses |-> payload] : payload \in Payloads}

\* request.data that also names the submission's own columns: an id and a
\* timestamp the store never assigns, and the other owner's form
ForgedData ==
    RequestData \cup
    {[responses |-> payload, id |-> 0, form |-> 2, submitted_at |-> 0] :
         payload \in Payloads}

\* what request.data holds besides the responses list
Extra(data) == [key \in DOMAIN data \ {"responses"} |-> data[key]]

\* request.META of a public submit: X-Forwarded-For as the list of addresses
\* its commas separate, and the address of the peer; either may be absent
Metas ==
    {[HTTP_X_FORWARDED_FOR |-> <<"10.0.0.1", "10.0.0.2">>, REMOTE_ADDR |-> "10.0.0.2"],
     [REMOTE_ADDR |-> "10.0.0.2"],
     [other |-> ""]}

\* the requests that come straight from the client, with no proxy
DirectMetas == {meta \in Metas : DOMAIN meta = {"REMOTE_ADDR"}}

\* the client address as submit works it out:
\*     ip = x_forwarded_for.split(',')[0] if x_forwarded_for
\*          else request.META.get('REMOTE_ADDR')
client_ip(meta) ==
    IF Has(meta, "HTTP_X_FORWARDED_FOR") /\ meta.HTTP_X_FORWARDED_FOR # <<>>
    THEN Some(Head(meta.HTTP_X_FORWARDED_FOR))
    ELSE IF Has(meta, "REMOTE_ADDR") THEN Some(meta.REMOTE_ADDR) ELSE None

----------------------------------------------------------------------------
(* Initial state: empty tables, no request in flight *)

NoResponse ==
    [op |-> "none", user |-> Anonymous, pk |-> 0, data |-> <<>>, status |-> 0,
     body |-> <<>>, instance |-> 0]

Idle == [pc |-> "idle", pk |-> 0, extra |-> <<>>, form |-> 0, ip |-> None,
         responses_data |-> <<>>, submission |-> 0, i |-> 0]

Init ==
    /\ forms = {}
    /\ fields = {}
    /\ submissions = {}
    /\ responses = {}
    /\ seq_ids = [form |-> 1, field |-> 1, submission |-> 1, response |-> 1, user |-> 3]
    /\ req = Idle
    /\ response = NoResponse
    /\ users = Accounts
    /\ auth = [w \in Workers |-> AuthIdle]

----------------------------------------------------------------------------
(* Rows and look-ups *)

FormById(pk) == {f \in forms : f.id = pk}
FieldById(pk) == {f \in fields : f.id = pk}
SubmissionById(pk) == {s \in submissions : s.id = pk}

\* Form.fields (related_name='fields'), FormSubmission.responses
FieldsOf(form_id) == {f \in fields : f.form = form_id}
ResponsesOf(submission_id) == {r \in responses : r.submission = submission_id}
SubmissionsOf(form_id) == {s \in submissions : s.form = form_id}

\* the cascade from the submission alone, as with no CASCADE on
\* FieldResponse.field
CascadeResponses_of_submissions(gone_fields, gone_submissions) ==
    {r \in responses : r.submission \in {s.id : s \in gone_submissions}}

\* on_delete=CASCADE: what goes with a set of forms, fields or submissions
CascadeResponses(gone_fields, gone_submissions) ==
    {r \in responses :
        \/ r.field \in {f.id : f \in gone_fields}
        \/ r.submission \in {s.id : s \in gone_submissions}}

----------------------------------------------------------------------------
(* Serializers *)

\* FormSerializer: errors of is_valid() as a set of <<field, code>>
FormSerializer_errors(data, partial) ==
    {e \in {<<"title", "required">>} : ~Has(data, "title") /\ ~partial}
        \cup {e \in {<<"title", "blank">>} : Has(data, "title") /\ data.title = ""}

\* FormSerializer.create: created_by is the authenticated user of the request
FormSerializer_create(data, user) ==
    [id |-> seq_ids.form,
     title |-> data.title,
     created_by |-> user,
     is_active |-> IF Has(data, "is_active") THEN data.is_active ELSE TRUE]

\* an update that flips the active flag whenever the body names it
FormSerializer_update_toggle(instance, data) ==
    [instance EXCEPT
        !.title = IF Has(data, "title") THEN data.title ELSE @,
        !.is_active = IF Has(data, "is_active") THEN ~@ ELSE @]

\* ModelSerializer.update: the attributes the body carries are set
FormSerializer_update(instance, data) ==
    [instance EXCEPT
        !.title = IF Has(data, "title") THEN data.title ELSE @,
        !.is_active = IF Has(data, "is_active") THEN data.is_active ELSE @]

\* the serializer with field_type taken as free text
FormFieldSerializer_errors_free_type(data, partial) ==
    {e \in {<<"label", "required">>} : ~Has(data, "label") /\ ~partial}
        \cup {e \in {<<"field_type", "required">>} :
                ~Has(data, "field_type") /\ ~partial}

\* FormFieldSerializer: label and field_type are required, field_type is a
\* ChoiceField over FIELD_TYPES; options is a JSONField that takes any value
FormFieldSerializer_errors(data, partial) ==
    {e \in {<<"label", "required">>} : ~Has(data, "label") /\ ~partial}
        \cup {e \in {<<"field_type", "required">>} :
                ~Has(data, "field_type") /\ ~partial}
        \cup {e \in {<<"field_type", "invalid_choice">>} :
                Has(data, "field_type") /\ data.field_type \notin FIELD_TYPES}

\* FormFieldSerializer.save(form=form): model defaults for what the body omits
FormFieldSerializer_create(data, form_id) ==
    [id |-> seq_ids.field,
     form |-> form_id,
     label |-> data.label,
     field_type |-> data.field_type,
     required |-> IF Has(data, "required") THEN data.required ELSE FALSE,
     options |-> IF Has(data, "options") THEN data.options ELSE None,
     order |-> IF Has(data, "order") THEN data.order ELSE 0]

\* an update that stores the field anew, under the next id
FormFieldSerializer_update_recreate(instance, data) ==
    [instance EXCEPT
        !.id = seq_ids.field,
        !.label = IF Has(data, "label") THEN data.label ELSE @,
        !.field_type = IF Has(data, "field_type") THEN data.field_type ELSE @,
        !.required = IF Has(data, "required") THEN data.required ELSE @,
        !.options = IF Has(data, "options") THEN data.options ELSE @,
        !.order = IF Has(data, "order") THEN data.order ELSE @]

\* an update that writes the model defaults for what the body omits, the way
\* a create does
FormFieldSerializer_update_defaults(instance, data) ==
    [instance EXCEPT
        !.label = IF Has(data, "label") THEN data.label ELSE @,
        !.field_type = IF Has(data, "field_type") THEN data.field_type ELSE @,
        !.required = IF Has(data, "required") THEN data.required ELSE FALSE,
        !.options = IF Has(data, "options") THEN data.options ELSE None,
        !.order = IF Has(data, "order") THEN data.order ELSE 0]

\* FormFieldSerializer.save() on an instance: the attributes the body
\* carries are set
FormFieldSerializer_update(instance, data) ==
    [instance EXCEPT
        !.label = IF Has(data, "label") THEN data.label ELSE @,
        !.field_type = IF Has(data, "field_type") THEN data.field_type ELSE @,
        !.required = IF Has(data, "required") THEN data.required ELSE @,
        !.options = IF Has(data, "options") THEN data.options ELSE @,
        !.order = IF Has(data, "order") THEN data.order ELSE @]

\* the entry serializer with a value that may be blank
FieldResponseSerializer_errors_allow_blank(entry) ==
    {e \in {<<"value", "blank">>} : FALSE}

\* FieldResponseSerializer: field_id is an IntegerField, value a CharField
\* that may not be blank; the errors of one entry
FieldResponseSerializer_errors(entry) ==
    {e \in {<<"value", "blank">>} : Strip(entry.value) = <<>>}

\* FieldResponseSerializer: the validated entry (the value is trimmed)
FieldResponseSerializer_validated(entry) ==
    [field_id |-> entry.field_id, value |-> Strip(entry.value)]

\* FormSubmissionSerializer.Meta.fields: the keys of submission_data that the
\* serializer reads; any other key never reaches validated_data
FormSubmissionSerializer_Meta_fields == {"id", "form", "submitted_at", "responses"}

\* the declared fields that are read-only: id is the AutoField, form is
\* declared FormSerializer(read_only=True), submitted_at is in read_only_fields
FormSubmissionSerializer_read_only_fields == {"id", "form", "submitted_at"}

\* submission_data as submit builds it: the form of the URL, the client
\* address, and request.data.get('responses', []); nothing else of the body
PublicFormViewSet_submission_data(form_id, ip, data) ==
    [form |-> form_id, ip_address |-> ip,
     responses |-> IF Has(data, "responses") THEN data.responses ELSE <<>>]

\* validated_data apart from responses: the declared, writable keys of the
\* data the serializer was given
FormSubmissionSerializer_validated_data(initial_data) ==
    [key \in (DOMAIN initial_data \cap FormSubmissionSerializer_Meta_fields)
               \ (FormSubmissionSerializer_read_only_fields \cup {"responses"})
         |-> initial_data[key]]

\* serializer.save(**kwargs): the keyword arguments override validated_data
Serializer_save(validated_data, kwargs) ==
    [key \in DOMAIN validated_data \cup DOMAIN kwargs |->
         IF key \in DOMAIN kwargs THEN kwargs[key] ELSE validated_data[key]]

\* FormSubmissionSerializer.is_valid(): responses is a list serializer, which
\* validates every entry and reports the errors entry by entry
FormSubmissionSerializer_errors(payload) ==
    [i \in 1..Len(payload) |-> FieldResponseSerializer_errors(payload[i])]

FormSubmissionSerializer_is_valid(payload) ==
    \A i \in 1..Len(payload) : FormSubmissionSerializer_errors(payload)[i] = {}

FormSubmissionSerializer_validated(payload) ==
    [i \in 1..Len(payload) |-> FieldResponseSerializer_validated(payload[i])]

----------------------------------------------------------------------------
(* Representations (serializer.data) *)

\* a queryset as the list the database returns: the rows in an order that
\* is ascending in key[row]; rows with equal keys come in any order
Ordered(rows, key) ==
    {s \in [1..Cardinality(rows) -> rows] :
        /\ \A i, j \in DOMAIN s : i # j => s[i] # s[j]
        /\ \A i, j \in DOMAIN s : i < j => key[s[i]] <= key[s[j]]}

\* the related fields in insertion order, as without Meta.ordering
FormField_ordering_by_id(f) == f.id

\* FormField.Meta.ordering = ['order']
FormField_ordering(f) == f.order

\* Form.Meta.ordering = ['-created_at'], FormSubmission.Meta.ordering =
\* ['-submitted_at']: rows are created in id order, so newest first is
\* descending id
Newest_first(row) == 0 - row.id

FormFieldSerializer_data(f) ==
    [id |-> f.id, label |-> f.label, field_type |-> f.field_type,
     required |-> f.required, options |-> f.options, order |-> f.order]

\* FormSerializer.data: the form with its nested fields, in each order the
\* related manager can return them
FormSerializer_data(form) ==
    {[id |-> form.id, title |-> form.title, created_by |-> form.created_by,
      is_active |-> form.is_active,
      fields |-> [i \in DOMAIN s |-> FormFieldSerializer_data(s[i])]] :
        s \in Ordered(FieldsOf(form.id),
                     [f \in FieldsOf(form.id) |-> FormField_ordering(f)])}

\* FormSerializer(many=True).data over a queryset
FormSerializer_list(queryset) ==
    {[i \in DOMAIN s |-> body[s[i].id]] :
        s \in Ordered(queryset, [row \in queryset |-> Newest_first(row)]),
        body \in {b \in [{f.id : f \in queryset} ->
                            UNION {FormSerializer_data(f) : f \in queryset}] :
                    \A f \in queryset : b[f.id] \in FormSerializer_data(f)}}

\* FormSubmissionSerializer.data without the nested form: the submission and
\* its responses (FieldResponse has no ordering: a set)
FormSubmissionSerializer_data(submission) ==
    [id |-> submission.id, form |-> submission.form,
     submitted_at |-> submission.submitted_at,
     responses |-> {[id |-> r.id, field |-> r.field, value |-> r.value] :
                        r \in ResponsesOf(submission.id)}]

NotFound == <<"detail", "Not found.">>

Response(op, user, pk, data, status, body, instance) ==
    [op |-> op, user |-> user, pk |-> pk, data |-> data, status |-> status,
     body |-> body, instance |-> instance]

\* GenericAPIView.get_object(): the row of the queryset with this pk, if any
get_object(queryset, pk) == {row \in queryset : row.id = pk}

----------------------------------------------------------------------------
(* FormViewSet: owner-scoped forms *)

\* the queryset without the filter on the owner
FormViewSet_get_queryset_all(user) == forms

FormViewSet_get_queryset(user) == {f \in forms : f.created_by = user}

\* POST /api/forms/
FormViewSet_create(user, data) ==
    LET errors == FormSerializer_errors(data, FALSE)
        form == FormSerializer_create(data, user)
    IN  /\ response = NoResponse
        /\ IF errors # {}
           THEN /\ response' = Response("form_create", user, 0, data, 400, errors, 0)
                /\ UNCHANGED <<forms, seq_ids>>
           ELSE /\ seq_ids.form <= MaxForms
                /\ forms' = forms \cup {form}
                /\ seq_ids' = [seq_ids EXCEPT !.form = @ + 1]
                /\ \E body \in FormSerializer_data(form) :
                       response' = Response("form_create", user, 0, data, 201, body, form.id)
        /\ UNCHANGED <<fields, submissions, responses, req, users, auth>>

\* GET /api/forms/{id}/
FormViewSet_retrieve(user, pk) ==
    LET found == get_object(FormViewSet_get_queryset(user), pk)
    IN  /\ response = NoResponse
        /\ IF found = {}
           THEN response' = Response("form_retrieve", user, pk, <<>>, 404, NotFound, 0)
           ELSE \E form \in found : \E body \in FormSerializer_data(form) :
                    response' = Response("form_retrieve", user, pk, <<>>, 200, body, form.id)
        /\ UNCHANGED <<forms, fields, submissions, responses, seq_ids, req, users, auth>>

\* PUT (partial = FALSE) and PATCH (partial = TRUE) /api/forms/{id}/
FormViewSet_update(user, pk, data, partial) ==
    LET found == get_object(FormViewSet_get_queryset(user), pk)
        errors == FormSerializer_errors(data, partial)
    IN  /\ response = NoResponse
        /\ IF found = {}
           THEN /\ response' = Response("form_update", user, pk, <<>>, 404, NotFound, 0)
                /\ UNCHANGED forms
           ELSE IF errors # {}
           THEN /\ response' = Response("form_update", user, pk, data, 400, errors, 0)
                /\ UNCHANGED forms
           ELSE \E form \in found :
                    LET updated == FormSerializer_update(form, data)
                    IN  /\ forms' = (forms \ {form}) \cup {updated}
                        /\ \E body \in FormSerializer_data(updated) :
                               response' = Response("form_update", user, pk, data, 200, body, form.id)
        /\ UNCHANGED <<fields, submissions, responses, seq_ids, req, users, auth>>

\* DELETE /api/forms/{id}/: the form goes with its fields, its submissions
\* and every response of those fields or submissions (on_delete=CASCADE)
FormViewSet_destroy(user, pk) ==
    LET found == get_object(FormViewSet_get_queryset(user), pk)
    IN  /\ response = NoResponse
        /\ IF found = {}
           THEN /\ response' = Response("form_destroy", user, pk, <<>>, 404, NotFound, 0)
                /\ UNCHANGED <<forms, fields, submissions, responses>>
           ELSE /\ forms' = forms \ found
                /\ fields' = fields \ FieldsOf(pk)
                /\ submissions' = submissions \ SubmissionsOf(pk)
                /\ responses' = responses \ CascadeResponses(FieldsOf(pk), SubmissionsOf(pk))
                /\ response' = Response("form_destroy", user, pk, <<>>, 204, <<>>, 0)
        /\ UNCHANGED <<seq_ids, req, users, auth>>

\* POST /api/forms/{id}/add_field/
FormViewSet_add_field(user, pk, data) ==
    LET found == get_object(FormViewSet_get_queryset(user), pk)
        errors == FormFieldSerializer_errors(data, FALSE)
    IN  /\ response = NoResponse
        /\ IF found = {}
           THEN /\ response' = Response("add_field", user, pk, <<>>, 404, NotFound, 0)
                /\ UNCHANGED <<fields, seq_ids>>
           ELSE IF errors # {}
           THEN /\ response' = Response("add_field", user, pk, data, 400, errors, 0)
                /\ UNCHANGED <<fields, seq_ids>>
           ELSE LET field == FormFieldSerializer_create(data, pk)
                IN  /\ seq_ids.field <= MaxFields
                    /\ fields' = fields \cup {field}
                    /\ seq_ids' = [seq_ids EXCEPT !.field = @ + 1]
                    /\ response' = Response("add_field", user, pk, data, 201,
                                            FormFieldSerializer_data(field), field.id)
        /\ UNCHANGED <<forms, submissions, responses, req, users, auth>>

\* GET /api/forms/{id}/submissions/
FormViewSet_submissions(user, pk) ==
    LET found == get_object(FormViewSet_get_queryset(user), pk)
    IN  /\ response = NoResponse
        /\ IF found = {}
           THEN response' = Response("submissions", user, pk, <<>>, 404, NotFound, 0)
           ELSE \E s \in Ordered(SubmissionsOf(pk),
                                   [row \in SubmissionsOf(pk) |-> Newest_first(row)]) :
                    response' = Response("submissions", user, pk, <<>>, 200,
                        [i \in DOMAIN s |-> FormSubmissionSerializer_data(s[i])], pk)
        /\ UNCHANGED <<forms, fields, submissions, responses, seq_ids, req, users, auth>>

----------------------------------------------------------------------------
(* FormFieldViewSet: owner-scoped fields *)

\* the queryset without the filter on the owner of the form
FormFieldViewSet_get_queryset_all(user) == fields

FormFieldViewSet_get_queryset(user) ==
    {f \in fields : \E form \in forms : form.id = f.form /\ form.created_by = user}

\* POST /api/fields/: the serializer has no form field, so the INSERT has a
\* NULL form_id and the database refuses it
FormFieldViewSet_create(user, data) ==
    LET errors == FormFieldSerializer_errors(data, FALSE)
    IN  /\ response = NoResponse
        /\ IF errors # {}
           THEN response' = Response("field_create", user, 0, data, 400, errors, 0)
           ELSE response' = Response("field_create", user, 0, data, 500, <<>>, 0)
        /\ UNCHANGED <<forms, fields, submissions, responses, seq_ids, req, users, auth>>

\* PUT (partial = FALSE) and PATCH (partial = TRUE) /api/fields/{id}/
FormFieldViewSet_update(user, pk, data, partial) ==
    LET found == get_object(FormFieldViewSet_get_queryset(user), pk)
        errors == FormFieldSerializer_errors(data, partial)
    IN  /\ response = NoResponse
        /\ IF found = {}
           THEN /\ response' = Response("field_update", user, pk, <<>>, 404, NotFound, 0)
                /\ UNCHANGED fields
           ELSE IF errors # {}
           THEN /\ response' = Response("field_update", user, pk, data, 400, errors, 0)
                /\ UNCHANGED fields
           ELSE \E field \in found :
                    LET updated == FormFieldSerializer_update(field, data)
                    IN  /\ fields' = (fields \ {field}) \cup {updated}
                        /\ response' = Response("field_update", user, pk, data, 200,
                                                FormFieldSerializer_data(updated), pk)
        /\ UNCHANGED <<forms, submissions, responses, seq_ids, req, users, auth>>

\* DELETE /api/fields/{id}/: the field goes with its responses
FormFieldViewSet_destroy(user, pk) ==
    LET found == get_object(FormFieldViewSet_get_queryset(user), pk)
    IN  /\ response = NoResponse
        /\ IF found = {}
           THEN /\ response' = Response("field_destroy", user, pk, <<>>, 404, NotFound, 0)
                /\ UNCHANGED <<fields, responses>>
           ELSE /\ fields' = fields \ found
                /\ responses' = responses \ CascadeResponses(found, {})
                /\ response' = Response("field_destroy", user, pk, <<>>, 204, <<>>, 0)
        /\ UNCHANGED <<forms, submissions, seq_ids, req, users, auth>>

----------------------------------------------------------------------------
(* FormSubmissionViewSet: owner-scoped, read-only submissions *)

SubmissionPks == 1..(MaxSubmissions + 1)

\* the queryset without the filter on the owner of the form
FormSubmissionViewSet_get_queryset_all(user) == submissions

FormSubmissionViewSet_get_queryset(user) ==
    {s \in submissions : \E form \in forms : form.id = s.form /\ form.created_by = user}

\* GET /api/submissions/
FormSubmissionViewSet_list(user) ==
    /\ response = NoResponse
    /\ \E s \in Ordered(FormSubmissionViewSet_get_queryset(user),
                        [row \in FormSubmissionViewSet_get_queryset(user) |->
                            Newest_first(row)]) :
           response' = Response("submission_list", user, 0, <<>>, 200,
                                [i \in DOMAIN s |-> FormSubmissionSerializer_data(s[i])], 0)
    /\ UNCHANGED <<forms, fields, submissions, responses, seq_ids, req, users, auth>>

\* GET /api/submissions/{id}/
FormSubmissionViewSet_retrieve(user, pk) ==
    LET found == get_object(FormSubmissionViewSet_get_queryset(user), pk)
    IN  /\ response = NoResponse
        /\ IF found = {}
           THEN response' = Response("submission_retrieve", user, pk, <<>>, 404, NotFound, 0)
           ELSE \E submission \in found :
                    response' = Response("submission_retrieve", user, pk, <<>>, 200,
                                         <<FormSubmissionSerializer_data(submission)>>, pk)
        /\ UNCHANGED <<forms, fields, submissions, responses, seq_ids, req, users, auth>>

\* the operations that read submissions, all under
\* permission_classes = [permissions.IsAuthenticated]
SubmissionReads == {"submissions", "submission_list", "submission_retrieve"}

\* a request with no identity on a view that requires authentication is
\* refused before the handler runs, with 401 or 403 as the authentication
\* classes of the project settings have it
IsAuthenticated_denied(op, pk) ==
    /\ response = NoResponse
    /\ \E status \in {401, 403} :
           response' = Response(op, Anonymous, pk, <<>>, status,
                                <<"detail", "Authentication credentials were not provided.">>, 0)
    /\ UNCHANGED <<forms, fields, submissions, responses, seq_ids, req, users, auth>>

----------------------------------------------------------------------------
(* PublicFormViewSet: the public surface, no authentication *)

\* queryset = Form.objects.filter(is_active=True)
\* the queryset without the filter on is_active
PublicFormViewSet_queryset_all == forms

PublicFormViewSet_queryset == {f \in forms : f.is_active}

\* GET /api/public/forms/
PublicFormViewSet_list ==
    /\ response = NoResponse
    /\ \E body \in FormSerializer_list(PublicFormViewSet_queryset) :
           response' = Response("public_list", Anonymous, 0, <<>>, 200, body, 0)
    /\ UNCHANGED <<forms, fields, submissions, responses, seq_ids, req, users, auth>>

\* the look-up among all the forms
PublicFormViewSet_retrieve_any(pk) ==
    LET found == get_object(forms, pk)
    IN  /\ response = NoResponse
        /\ IF found = {}
           THEN response' = Response("public_retrieve", Anonymous, pk, <<>>, 404, NotFound, 0)
           ELSE \E form \in found : \E body \in FormSerializer_data(form) :
                    response' = Response("public_retrieve", Anonymous, pk, <<>>, 200, body, pk)
        /\ UNCHANGED <<forms, fields, submissions, responses, seq_ids, req, users, auth>>

\* GET /api/public/forms/{id}/
PublicFormViewSet_retrieve(pk) ==
    LET found == get_object(PublicFormViewSet_queryset, pk)
    IN  /\ response = NoResponse
        /\ IF found = {}
           THEN response' = Response("public_retrieve", Anonymous, pk, <<>>, 404, NotFound, 0)
           ELSE \E form \in found : \E body \in FormSerializer_data(form) :
                    response' = Response("public_retrieve", Anonymous, pk, <<>>, 200, body, pk)
        /\ UNCHANGED <<forms, fields, submissions, responses, seq_ids, req, users, auth>>

\* submit saving under the form the body names, when it names one
PublicFormViewSet_submit_body_form(pk, data, meta) ==
    LET found == get_object(PublicFormViewSet_queryset, pk)
        submission_data == PublicFormViewSet_submission_data(pk, client_ip(meta), data)
        payload == submission_data.responses
        saved == Serializer_save(FormSubmissionSerializer_validated_data(submission_data),
                                 [form |-> IF Has(data, "form") THEN data.form ELSE pk])
    IN  /\ response = NoResponse
        /\ req.pc = "idle"
        /\ IF found = {}
           THEN /\ response' = Response("submit", Anonymous, pk, <<>>, 404, NotFound, 0)
                /\ UNCHANGED req
           ELSE IF ~FormSubmissionSerializer_is_valid(payload)
           THEN /\ response' = Response("submit", Anonymous, pk, payload, 400,
                                        FormSubmissionSerializer_errors(payload), 0)
                /\ UNCHANGED req
           ELSE /\ seq_ids.submission <= MaxSubmissions
                /\ req' = [pc |-> "create_submission", pk |-> pk, extra |-> Extra(data),
                           form |-> saved.form, ip |-> submission_data.ip_address,
                           responses_data |-> FormSubmissionSerializer_validated(payload),
                           submission |-> 0, i |-> 0]
                /\ UNCHANGED response
        /\ UNCHANGED <<forms, fields, submissions, responses, seq_ids, users, auth>>

\* POST /api/public/forms/{id}/submit/ up to serializer.is_valid(): the form
\* is looked up among the active forms, submission_data is built and
\* validated, and a valid request goes on to serializer.save(form=form)
PublicFormViewSet_submit(pk, data, meta) ==
    LET found == get_object(PublicFormViewSet_queryset, pk)
        submission_data == PublicFormViewSet_submission_data(pk, client_ip(meta), data)
        payload == submission_data.responses
        saved == Serializer_save(FormSubmissionSerializer_validated_data(submission_data),
                                 [form |-> pk])
    IN  /\ response = NoResponse
        /\ req.pc = "idle"
        /\ IF found = {}
           THEN /\ response' = Response("submit", Anonymous, pk, <<>>, 404, NotFound, 0)
                /\ UNCHANGED req
           ELSE IF ~FormSubmissionSerializer_is_valid(payload)
           THEN /\ response' = Response("submit", Anonymous, pk, payload, 400,
                                        FormSubmissionSerializer_errors(payload), 0)
                /\ UNCHANGED req
           ELSE /\ seq_ids.submission <= MaxSubmissions
                /\ req' = [pc |-> "create_submission", pk |-> pk, extra |-> Extra(data),
                           form |-> saved.form, ip |-> submission_data.ip_address,
                           responses_data |-> FormSubmissionSerializer_validated(payload),
                           submission |-> 0, i |-> 0]
                /\ UNCHANGED response
        /\ UNCHANGED <<forms, fields, submissions, responses, seq_ids, users, auth>>

\* an INSERT that breaks a foreign key raises IntegrityError, which nothing
\* catches: the request ends with a 500 and what it has written stays
IntegrityError ==
    /\ response' = Response("submit", Anonymous, req.form, req.responses_data, 500, <<>>, req.submission)
    /\ req' = Idle

\* FormSubmissionSerializer.create: FormSubmission.objects.create(**validated_data)
\* ip_address is stored when validated_data holds it and is NULL otherwise;
\* submitted_at (auto_now_add) is the time of the INSERT, counted in INSERTs
FormSubmissionSerializer_create_submission ==
    /\ response = NoResponse
    /\ req.pc = "create_submission"
    /\ IF FormById(req.form) = {}
       THEN /\ IntegrityError
            /\ UNCHANGED <<submissions, seq_ids>>
       ELSE /\ submissions' = submissions \cup
                    {[id |-> seq_ids.submission, form |-> req.form,
                      submitted_at |-> seq_ids.submission,
                      ip_address |-> IF "ip_address" \in FormSubmissionSerializer_Meta_fields
                                     THEN req.ip ELSE None]}
            /\ seq_ids' = [seq_ids EXCEPT !.submission = @ + 1]
            /\ req' = [req EXCEPT !.pc = "create_responses",
                                  !.submission = seq_ids.submission, !.i = 1]
            /\ UNCHANGED response
    /\ UNCHANGED <<forms, fields, responses, users, auth>>

\* the loop leaving after its first turn
FormSubmissionSerializer_create_response_once ==
    /\ response = NoResponse
    /\ req.pc = "create_responses"
    /\ req.i <= Len(req.responses_data)
    /\ LET response_data == req.responses_data[req.i]
       IN  IF FieldById(response_data.field_id) = {} \/ SubmissionById(req.submission) = {}
           THEN /\ IntegrityError
                /\ UNCHANGED <<responses, seq_ids>>
           ELSE /\ responses' = responses \cup
                        {[id |-> seq_ids.response, submission |-> req.submission,
                          field |-> response_data.field_id,
                          value |-> response_data.value]}
                /\ seq_ids' = [seq_ids EXCEPT !.response = @ + 1]
                /\ req' = [req EXCEPT !.i = Len(req.responses_data) + 1]
                /\ UNCHANGED response
    /\ UNCHANGED <<forms, fields, submissions, users, auth>>

\* FormSubmissionSerializer.create: one turn of the loop
\*     FieldResponse.objects.create(submission=submission, **response_data)
FormSubmissionSerializer_create_response ==
    /\ response = NoResponse
    /\ req.pc = "create_responses"
    /\ req.i <= Len(req.responses_data)
    /\ LET response_data == req.responses_data[req.i]
       IN  IF FieldById(response_data.field_id) = {} \/ SubmissionById(req.submission) = {}
           THEN /\ IntegrityError
                /\ UNCHANGED <<responses, seq_ids>>
           ELSE /\ responses' = responses \cup
                        {[id |-> seq_ids.response, submission |-> req.submission,
                          field |-> response_data.field_id,
                          value |-> response_data.value]}
                /\ seq_ids' = [seq_ids EXCEPT !.response = @ + 1]
                /\ req' = [req EXCEPT !.i = @ + 1]
                /\ UNCHANGED response
    /\ UNCHANGED <<forms, fields, submissions, users, auth>>

\* the loop is over: create returns the submission and submit answers 201
PublicFormViewSet_submit_return ==
    /\ response = NoResponse
    /\ req.pc = "create_responses"
    /\ req.i > Len(req.responses_data)
    /\ response' = Response("submit", Anonymous, req.form, req.responses_data, 201,
                            <<"message", "Form submitted successfully">>, req.submission)
    /\ req' = Idle
    /\ UNCHANGED <<forms, fields, submissions, responses, seq_ids, users, auth>>

\* the response a handler returned is sent to the client
Send ==
    /\ response # NoResponse
    /\ response' = NoResponse
    /\ UNCHANGED <<forms, fields, submissions, responses, seq_ids, req, users, auth>>

----------------------------------------------------------------------------
(* Schema management: the owners' requests on forms and fields and the     *)
(* public read path, from the empty database                               *)

Next ==
    \/ \E user \in Users, data \in FormData : FormViewSet_create(user, data)
    \/ \E user \in Users, pk \in FormPks : FormViewSet_retrieve(user, pk)
    \/ \E user \in Users, pk \in FormPks, data \in FormData, partial \in BOOLEAN :
           FormViewSet_update(user, pk, data, partial)
    \/ \E user \in Users, pk \in FormPks : FormViewSet_destroy(user, pk)
    \/ \E user \in Users, pk \in FormPks, data \in FieldData :
           FormViewSet_add_field(user, pk, data)
    \/ \E user \in Users, pk \in FormPks : FormViewSet_submissions(user, pk)
    \/ \E user \in Users, data \in FieldData : FormFieldViewSet_create(user, data)
    \/ \E user \in Users, pk \in FieldPks, data \in FieldData, partial \in BOOLEAN :
           FormFieldViewSet_update(user, pk, data, partial)
    \/ \E user \in Users, pk \in FieldPks : FormFieldViewSet_destroy(user, pk)
    \/ PublicFormViewSet_list
    \/ \E pk \in FormPks : PublicFormViewSet_retrieve(pk)
    \/ Send

Spec == Init /\ [][Next]_vars

----------------------------------------------------------------------------
(* Public submissions racing with the owners' requests, from a database    *)
(* that holds two forms: alice's form with the fields Name (text,          *)
(* required, order 1) and Age (number, order 2), and bob's form with the   *)
(* field Color (select, order 1)                                           *)

InitSubmit ==
    /\ forms = {[id |-> 1, title |-> "Survey", created_by |-> "alice", is_active |-> TRUE],
                [id |-> 2, title |-> "Survey", created_by |-> "bob", is_active |-> TRUE]}
    /\ fields = {[id |-> 1, form |-> 1, label |-> "Name", field_type |-> "text",
                  required |-> TRUE, options |-> None, order |-> 1],
                 [id |-> 2, form |-> 1, label |-> "Age", field_type |-> "number",
                  required |-> FALSE, options |-> None, order |-> 2],
                 [id |-> 3, form |-> 2, label |-> "Color", field_type |-> "select",
                  required |-> FALSE, options |-> None, order |-> 1]}
    /\ submissions = {}
    /\ responses = {}
    /\ seq_ids = [form |-> 3, field |-> 4, submission |-> 1, response |-> 1, user |-> 3]
    /\ req = Idle
    /\ response = NoResponse
    /\ users = Accounts
    /\ auth = [w \in Workers |-> AuthIdle]

\* PATCH /api/forms/{id}/ bodies that switch a form off and on
ActiveData == {[is_active |-> TRUE], [is_active |-> FALSE]}

NextSubmit ==
    \/ \E pk \in FormPks, data \in RequestData, meta \in DirectMetas :
           PublicFormViewSet_submit(pk, data, meta)
    \/ FormSubmissionSerializer_create_submission
    \/ FormSubmissionSerializer_create_response
    \/ PublicFormViewSet_submit_return
    \/ \E user \in Users, pk \in FormPks, data \in ActiveData :
           FormViewSet_update(user, pk, data, TRUE)
    \/ \E user \in Users, pk \in FormPks : FormViewSet_destroy(user, pk)
    \/ \E user \in Users, pk \in FieldPks : FormFieldViewSet_destroy(user, pk)
    \/ \E user \in Users, pk \in FormPks : FormViewSet_submissions(user, pk)
    \/ \E user \in Users : FormSubmissionViewSet_list(user)
    \/ \E user \in Users, pk \in SubmissionPks : FormSubmissionViewSet_retrieve(user, pk)
    \/ \E op \in SubmissionReads, pk \in SubmissionPks : IsAuthenticated_denied(op, pk)
    \/ Send

SpecSubmit == InitSubmit /\ [][NextSubmit]_vars

----------------------------------------------------------------------------
(* Public submissions from behind a proxy, directly, and with no address,  *)
(* with bodies that may name the submission's own columns, while the       *)
(* owners switch their forms off and on                                    *)

NextAddress ==
    \/ \E pk \in FormPks, data \in ForgedData, meta \in Metas :
           PublicFormViewSet_submit(pk, data, meta)
    \/ FormSubmissionSerializer_create_submission
    \/ FormSubmissionSerializer_create_response
    \/ PublicFormViewSet_submit_return
    \/ \E user \in Users, pk \in FormPks, data \in ActiveData :
           FormViewSet_update(user, pk, data, TRUE)
    \/ Send

SpecAddress == InitSubmit /\ [][NextAddress]_vars

----------------------------------------------------------------------------
(* Stored submissions while the owners reorder and delete fields and       *)
(* delete forms                                                            *)

\* PATCH /api/fields/{id}/ bodies that move a field
ReorderData == {data \in FieldData : DOMAIN data = {"order"}}

NextAppend ==
    \/ \E pk \in FormPks, data \in RequestData, meta \in DirectMetas :
           PublicFormViewSet_submit(pk, data, meta)
    \/ FormSubmissionSerializer_create_submission
    \/ FormSubmissionSerializer_create_response
    \/ PublicFormViewSet_submit_return
    \/ \E user \in Users, pk \in FieldPks, data \in ReorderData :
           FormFieldViewSet_update(user, pk, data, TRUE)
    \/ \E user \in Users, pk \in FieldPks : FormFieldViewSet_destroy(user, pk)
    \/ \E user \in Users, pk \in FormPks : FormViewSet_destroy(user, pk)
    \/ Send

SpecAppend == InitSubmit /\ [][NextAppend]_vars

----------------------------------------------------------------------------
(* Accounts: registration and profile updates, each handled by a worker in *)
(* steps (validation, then the write), so that two requests can interleave *)

Emails == {Email("ann", "x.org"), Email("ann", "X.org"), Email("bob", "x.org")}
Passwords == {"pw1", "pw2"}

\* bodies of POST /api/auth/register/ and of PATCH /api/auth/profile/
RegisterData == [email : Emails, password : Passwords, password2 : Passwords]
ProfileData == [email : Emails]

\* str.lower() on the texts the inputs are made of
lower(text) == IF text = "X.org" THEN "x.org" ELSE text

\* create_user stores normalize_email(email): the domain part in lower case
normalize_email(email) == Email(email.local, lower(email.domain))

\* RegisterSerializer.is_valid(): validate_email looks for a user with this
\* email; validate compares the passwords when no field has failed
RegisterSerializer_errors(data) ==
    IF \E u \in users : u.email = data.email
    THEN {<<"email", "A user with this email already exists.">>}
    ELSE {e \in {<<"password", "Password fields didn't match.">>} :
             data.password # data.password2}

\* UserProfileSerializer.validate_email: another user with this email
UserProfileSerializer_errors(user, data) ==
    {e \in {<<"email", "A user with this email already exists.">>} :
        \E u \in users : u.email = data.email /\ u.id # user}

\* RegisterSerializer.create: the first free name among base, base1, base2, ...
RECURSIVE unique_username(_, _)
unique_username(base_username, counter) ==
    LET username == IF counter = 0 THEN base_username
                    ELSE base_username \o ToString(counter)
    IN  IF \E u \in users : u.username = username
        THEN unique_username(base_username, counter + 1)
        ELSE username

\* the account requests that are past validation and will insert a user
Inserting == {w \in Workers : auth[w].op = "register" /\ auth[w].pc \in {"username", "insert"}}

\* POST /api/auth/register/ up to serializer.is_valid(raise_exception=True)
RegisterView_create(w, data) ==
    LET errors == RegisterSerializer_errors(data)
    IN  /\ auth[w].pc = "idle"
        /\ seq_ids.user + Cardinality(Inserting) <= MaxUsers
        /\ auth' = [auth EXCEPT ![w] =
                       [pc |-> IF errors = {} THEN "username" ELSE "done",
                        op |-> "register", user |-> 0, email |-> data.email,
                        username |-> "", status |-> IF errors = {} THEN 0 ELSE 400]]
        /\ UNCHANGED <<forms, fields, submissions, responses, seq_ids, req, response, users>>

\* RegisterSerializer.create: the loop that picks the username
RegisterSerializer_create_username(w) ==
    /\ auth[w].op = "register" /\ auth[w].pc = "username"
    /\ auth' = [auth EXCEPT ![w].pc = "insert",
                            ![w].username = unique_username(lower(auth[w].email.local), 0)]
    /\ UNCHANGED <<forms, fields, submissions, responses, seq_ids, req, response, users>>

\* RegisterSerializer.create: User.objects.create_user(...); username is
\* unique in auth_user, email is not, so only a taken username fails the INSERT
RegisterSerializer_create_user(w) ==
    /\ auth[w].op = "register" /\ auth[w].pc = "insert"
    /\ IF \E u \in users : u.username = auth[w].username
       THEN /\ auth' = [auth EXCEPT ![w].pc = "done", ![w].status = 500]
            /\ UNCHANGED <<users, seq_ids>>
       ELSE /\ users' = users \cup {[id |-> seq_ids.user, username |-> auth[w].username,
                                      email |-> normalize_email(auth[w].email)]}
            /\ seq_ids' = [seq_ids EXCEPT !.user = @ + 1]
            /\ auth' = [auth EXCEPT ![w].pc = "done", ![w].status = 201,
                                    ![w].user = seq_ids.user]
    /\ UNCHANGED <<forms, fields, submissions, responses, req, response>>

\* PUT/PATCH /api/auth/profile/ by an authenticated user, up to is_valid()
UserProfileView_update(w, user, data) ==
    LET errors == UserProfileSerializer_errors(user, data)
    IN  /\ auth[w].pc = "idle"
        /\ \E u \in users : u.id = user
        /\ auth' = [auth EXCEPT ![w] =
                       [pc |-> IF errors = {} THEN "save" ELSE "done",
                        op |-> "profile", user |-> user, email |-> data.email,
                        username |-> "", status |-> IF errors = {} THEN 0 ELSE 400]]
        /\ UNCHANGED <<forms, fields, submissions, responses, seq_ids, req, response, users>>

\* ModelSerializer.update on the user: the email of the body is set as it came
UserProfileSerializer_update(w) ==
    /\ auth[w].op = "profile" /\ auth[w].pc = "save"
    /\ users' = {IF u.id = auth[w].user THEN [u EXCEPT !.email = auth[w].email] ELSE u :
                     u \in users}
    /\ auth' = [auth EXCEPT ![w].pc = "done", ![w].status = 200]
    /\ UNCHANGED <<forms, fields, submissions, responses, seq_ids, req, response>>

\* the worker has answered and takes the next request
AuthReturn(w) ==
    /\ auth[w].pc = "done"
    /\ auth' = [auth EXCEPT ![w] = AuthIdle]
    /\ UNCHANGED <<forms, fields, submissions, responses, seq_ids, req, response, users>>

NextAccounts ==
    \/ \E w \in Workers, data \in RegisterData : RegisterView_create(w, data)
    \/ \E w \in Workers : RegisterSerializer_create_username(w)
    \/ \E w \in Workers : RegisterSerializer_create_user(w)
    \/ \E w \in Workers, user \in 1..MaxUsers, data \in ProfileData :
           UserProfileView_update(w, user, data)
    \/ \E w \in Workers : UserProfileSerializer_update(w)
    \/ \E w \in Workers : AuthReturn(w)

SpecAccounts == Init /\ [][NextAccounts]_vars

----------------------------------------------------------------------------
(* What the claims speak of *)

\* the ids of the fields declared on a form
FieldIdsOf(form_id) == {f.id : f \in FieldsOf(form_id)}

\* the required fields of a form for which the payload has no entry with a
\* non-empty value
MissingRequired(form_id, data) ==
    {f \in FieldsOf(form_id) :
        /\ f.required
        /\ ~\E i \in DOMAIN data :
               data[i].field_id = f.id /\ Strip(data[i].value) # <<>>}

\* the entries of the payload that name no field of the form
UnknownFields(form_id, data) ==
    {i \in DOMAIN data : data[i].field_id \notin FieldIdsOf(form_id)}

IsDecimalNumeral(v) == v # <<>> /\ \A i \in DOMAIN v : v[i] \in Digits

\* the entries of the payload that give a number field a value that is no
\* decimal numeral
InvalidNumbers(form_id, data) ==
    {i \in DOMAIN data :
        \E f \in FieldsOf(form_id) :
            /\ f.id = data[i].field_id
            /\ f.field_type = "number"
            /\ ~IsDecimalNumeral(Strip(data[i].value))}

IsActive(form_id) == \E f \in forms : f.id = form_id /\ f.is_active

\* the entries of the payload whose field_id is the id of a field of another
\* form, or an id the database has never issued
ForeignFields(form_id, data) ==
    {i \in DOMAIN data :
        \/ \E f \in fields : f.id = data[i].field_id /\ f.form # form_id
        \/ data[i].field_id >= seq_ids.field}

\* (C1) A submission and its responses are one atomic unit: the submission a
\* request is writing is never visible with only part of its responses,
\* and a request that ends in a persistence error leaves no row of its
\* submission behind.
C1_AtomicSubmission ==
    /\ req.pc = "create_responses" /\ SubmissionById(req.submission) # {}
           => Cardinality(ResponsesOf(req.submission)) = Len(req.responses_data)
    /\ response.op = "submit" /\ response.status = 500
           => /\ SubmissionById(response.instance) = {}
              /\ ResponsesOf(response.instance) = {}

\* (C2) A submit to an active form whose payload has no non-empty value for
\* a required field of the form fails as a validation error and persists
\* nothing: the request has created no submission row.
C2_MissingRequiredRejected ==
    response.op = "submit" /\ response.status # 404
        /\ MissingRequired(response.pk, response.data) # {}
    => response.status = 400 /\ response.instance = 0

\* (C3) A submit whose payload has an entry naming a field of a different
\* form, or an id that no field has, fails as a validation error and
\* persists nothing: the request has created no submission row.
C3_UnknownFieldRejected ==
    response.op = "submit" /\ response.status # 404
        /\ ForeignFields(response.pk, response.data) # {}
    => response.status = 400 /\ response.instance = 0

\* the payload is valid for the form as the form is now: the form exists and
\* every entry names one of its fields and has a non-empty value
PayloadValid(form_id, data) ==
    /\ FormById(form_id) # {}
    /\ UnknownFields(form_id, data) = {}
    /\ \A i \in DOMAIN data : Strip(data[i].value) # <<>>

\* (C4) A submit to an active form with a payload whose entries all name
\* fields of the form and have non-empty values succeeds, leaves exactly one
\* submission row of that form with the id it created, and as many response
\* rows of that submission as the payload has pairs.
C4_ValidSubmitSucceeds ==
    response.op = "submit" /\ IsActive(response.pk)
        /\ PayloadValid(response.pk, response.data)
    => /\ response.status = 201
       /\ \E s \in submissions : s.id = response.instance /\ s.form = response.pk
       /\ Cardinality(SubmissionById(response.instance)) = 1
       /\ Cardinality(ResponsesOf(response.instance)) = Len(response.data)
       /\ \A i \in DOMAIN response.data :
              \E r \in ResponsesOf(response.instance) :
                  r.field = response.data[i].field_id /\ r.value = response.data[i].value

\* (C4) witness: a successful submit of two pairs that cover the required
\* Name and give the number field Age a numeral
C4_Witness ==
    /\ response.op = "submit" /\ response.status = 201
    /\ IsActive(response.pk) /\ PayloadValid(response.pk, response.data)
    /\ Len(response.data) = 2
    /\ MissingRequired(response.pk, response.data) = {}
    /\ InvalidNumbers(response.pk, response.data) = {}
    /\ \E i \in DOMAIN response.data : \E f \in FieldsOf(response.pk) :
           f.id = response.data[i].field_id /\ f.field_type = "number"
    /\ Cardinality(ResponsesOf(response.instance)) = 2

\* a step in which submit looks the form pk up: it answers at once (404 or
\* 400) or goes on to save
SubmitIssued(pk) ==
    /\ req.pc = "idle" /\ response = NoResponse
    /\ \/ req'.pc = "create_submission" /\ req'.form = pk
       \/ response'.op = "submit" /\ response'.pk = pk

OwnerOps == {"form_retrieve", "form_update", "form_destroy", "add_field", "submissions"}

Owns(user, pk) == \E f \in forms : f.id = pk /\ f.created_by = user

\* (C6) An owner-scoped operation on a form id that the user does not own
\* is answered with the same 404 "Not found." whether the id is another
\* user's form or no form at all, and changes nothing.
C6_NonOwnerSeesNotFound ==
    [][response = NoResponse /\ response'.op \in OwnerOps
          /\ ~Owns(response'.user, response'.pk)
       => /\ response' = Response(response'.op, response'.user, response'.pk,
                                  <<>>, 404, NotFound, 0)
          /\ UNCHANGED <<forms, fields, submissions, responses, seq_ids>>]_vars

\* (C6) witness: add_field on another user's form has been answered 404
C6_Witness ==
    /\ response.op = "add_field" /\ response.status = 404
    /\ \E f \in forms : f.id = response.pk /\ f.created_by # response.user

\* (C7) The public get returns a form exactly when the form exists and is
\* active, and the public list holds exactly the active forms, whoever
\* owns them.
C7_PublicReadsActiveOnly ==
    /\ response.op = "public_retrieve"
           => /\ response.status = 200 <=> IsActive(response.pk)
              /\ response.status = 200 => response.body.id = response.pk
              /\ response.status # 200 => response.status = 404
    /\ response.op = "public_list"
           => {response.body[i].id : i \in DOMAIN response.body}
                  = {f.id : f \in {g \in forms : g.is_active}}

\* (C7) witness: the public list shows one user's active form and leaves out
\* another user's inactive form
C7_Witness ==
    /\ response.op = "public_list" /\ Len(response.body) = 1
    /\ \E f, g \in forms :
           /\ f.is_active /\ ~g.is_active /\ f.created_by # g.created_by
           /\ response.body[1].id = f.id

\* the field types that offer choices
ChoiceTypes == {"select", "radio", "checkbox"}

\* (C8) Every stored field has a type of the enumeration, and every stored
\* select, radio or checkbox field has options that are present and not
\* empty.
C8_FieldDefinitionsValid ==
    \A f \in fields :
        /\ f.field_type \in FIELD_TYPES
        /\ f.field_type \in ChoiceTypes => \E o \in f.options : o # <<>>

\* (C8, amended) A field create or update whose type is not in the
\* enumeration is rejected with a validation error and creates no field,
\* and every stored field has a type of the enumeration.
C8_FieldTypesRecognized ==
    /\ \A f \in fields : f.field_type \in FIELD_TYPES
    /\ response.op \in {"add_field", "field_create", "field_update"}
           /\ Has(response.data, "field_type")
           /\ response.data.field_type \notin FIELD_TYPES
       => /\ response.status = 400
          /\ <<"field_type", "invalid_choice">> \in response.body
          /\ response.instance = 0

\* (C8) witness: add_field with an unknown type has been rejected on a form
\* of the user, while a select field without options is stored
C8_Witness ==
    /\ response.op = "add_field" /\ response.status = 400
    /\ Has(response.data, "field_type")
    /\ response.data.field_type \notin FIELD_TYPES
    /\ Owns(response.user, response.pk)
    /\ \E f \in fields : f.field_type = "select" /\ f.options = None

\* the responses that carry one form
FormReads == {"form_create", "form_retrieve", "form_update", "public_retrieve"}

\* the nested fields of a returned form are exactly the fields of the form
FieldsComplete(body) ==
    /\ Len(body.fields) = Cardinality(FieldsOf(body.id))
    /\ {body.fields[i].id : i \in DOMAIN body.fields} = FieldIdsOf(body.id)

\* (C9) The fields of a returned form are sorted by ascending order, fields
\* of equal order by ascending id.
C9_FieldsSortedByOrderAndId ==
    response.op \in FormReads /\ response.status \in {200, 201}
    => /\ FieldsComplete(response.body)
       /\ \A i, j \in DOMAIN response.body.fields :
              i < j => \/ response.body.fields[i].order < response.body.fields[j].order
                       \/ /\ response.body.fields[i].order = response.body.fields[j].order
                          /\ response.body.fields[i].id < response.body.fields[j].id

\* (C9, amended) The fields of a returned form are all the fields of the
\* form, sorted by ascending order; the order of fields of equal order is
\* not determined.
C9_FieldsSortedByOrder ==
    response.op \in FormReads /\ response.status \in {200, 201}
    => /\ FieldsComplete(response.body)
       /\ \A i, j \in DOMAIN response.body.fields :
              i < j => response.body.fields[i].order <= response.body.fields[j].order

\* (C9) witness: a form with Name (order 1) and Age (order 2) read back
C9_Witness ==
    /\ response.op = "public_retrieve" /\ response.status = 200
    /\ Len(response.body.fields) = 2
    /\ response.body.fields[1].label = "Name" /\ response.body.fields[1].order = 1
    /\ response.body.fields[2].label = "Age" /\ response.body.fields[2].order = 2
    /\ response.body.fields[1].id > response.body.fields[2].id

\* (C10) A payload that omits a required field and gives a number field a
\* value that is no numeral is rejected with an error for each of the two
\* fields, the entry with the bad number among them, and no submission row
\* is created.
C10_ExhaustiveValidation ==
    response.op = "submit" /\ response.status # 404
        /\ MissingRequired(response.pk, response.data) # {}
        /\ InvalidNumbers(response.pk, response.data) # {}
    => /\ response.status = 400
       /\ response.instance = 0
       /\ \A i \in InvalidNumbers(response.pk, response.data) : response.body[i] # {}

\* the entries of the payload whose value does not fit the type of the
\* field they name: no decimal numeral for a number field, no member of the
\* options for a select, radio or checkbox field
InvalidValues(form_id, data) ==
    {i \in DOMAIN data :
        \E f \in FieldsOf(form_id) :
            /\ f.id = data[i].field_id
            /\ \/ f.field_type = "number" /\ ~IsDecimalNumeral(Strip(data[i].value))
               \/ /\ f.field_type \in ChoiceTypes
                  /\ ~\E o \in f.options : \E k \in DOMAIN o : o[k] = Strip(data[i].value)}

\* (C11) A submit with an entry whose value does not fit the type of its
\* field is rejected with a validation error and stores nothing.
C11_InvalidValueRejected ==
    response.op = "submit" /\ response.status # 404
        /\ InvalidValues(response.pk, response.data) # {}
    => /\ response.status = 400
       /\ SubmissionById(response.instance) = {}

\* (C12) The response rows of an accepted submission are stored in the order
\* in which their fields are declared on the form (ascending order, then
\* id), whatever the order of the entries of the payload.
C12_StoredInDeclarationOrder ==
    response.op = "submit" /\ response.status = 201
    => \A r1, r2 \in ResponsesOf(response.instance) :
           r1.id < r2.id
           => \A f1 \in FieldById(r1.field), f2 \in FieldById(r2.field) :
                  \/ f1.order < f2.order
                  \/ f1.order = f2.order /\ f1.id <= f2.id

\* (C13) Every request that is answered with a rejection (400, 404 or 500)
\* leaves the four tables as they were before the call: the step that
\* answers changes no row, and no row that the request has written on its
\* way stays behind.
C13_RejectedLeavesStoreUnchanged ==
    [][response = NoResponse /\ response'.status \in {400, 404, 500}
       => /\ UNCHANGED <<forms, fields, submissions, responses>>
          /\ \A s \in submissions' : s.id # response'.instance
          /\ \A r \in responses' : r.submission # response'.instance]_vars

\* (C14) When a submit from a request that carries a source address
\* succeeds, the stored submission has that address: the first entry of
\* X-Forwarded-For when the header is present, the remote address otherwise.
C14_SourceAddressStored ==
    [][response'.op = "submit" /\ response'.status = 201 /\ req.ip # None
       => \A s \in SubmissionById(req.submission) : s.ip_address = req.ip]_vars

\* (C15) No row refers to a row that does not exist: every field and every
\* submission has its form, every response has its submission and its
\* field; once a form is deleted none of its fields, submissions or their
\* responses is left.
C15_NoDanglingReferences ==
    /\ \A f \in fields : FormById(f.form) # {}
    /\ \A s \in submissions : FormById(s.form) # {}
    /\ \A r \in responses : SubmissionById(r.submission) # {} /\ FieldById(r.field) # {}
    /\ response.op = "form_destroy" /\ response.status = 204
           => /\ FieldsOf(response.pk) = {} /\ SubmissionsOf(response.pk) = {}
              /\ \A r \in responses :
                     \A sub \in SubmissionById(r.submission) : sub.form # response.pk

\* (C15) witness: a form has been deleted after a submission with two
\* responses was stored for it, and its fields, the submission and the
\* responses are gone
C15_Witness ==
    /\ response.op = "form_destroy" /\ response.status = 204 /\ response.pk = 1
    /\ seq_ids.submission = 2 /\ seq_ids.response = 3
    /\ submissions = {} /\ responses = {}
    /\ {f.form : f \in fields} = {2}

\* (C16) Only requests of the user who created a form change or delete the
\* form or its fields; the owner of a form is the user of the create
\* request, whatever the body says, and never changes; add_field on an
\* owned form adds exactly one field, attached to that form.
C16_OnlyOwnerMutates ==
    [][response = NoResponse
       => /\ \A f \in forms : f \notin forms' => f.created_by = response'.user
          /\ \A f \in forms, g \in forms' : f.id = g.id => g.created_by = f.created_by
          /\ \A g \in forms' :
                 FormById(g.id) = {}
                 => response'.op = "form_create" /\ g.created_by = response'.user
          /\ \A fld \in (fields \ fields') \cup (fields' \ fields) :
                 \E f \in forms : f.id = fld.form /\ f.created_by = response'.user
          /\ response'.op = "add_field" /\ response'.status = 201
                 => /\ Owns(response'.user, response'.pk)
                    /\ fields \subseteq fields'
                    /\ Cardinality(fields' \ fields) = 1
                    /\ \A fld \in fields' \ fields : fld.form = response'.pk]_vars

\* (C16) witness: a form created by a request whose body names another user
\* as created_by belongs to the user of the request, next to a form of the
\* other user that has a field
C16_Witness ==
    /\ response.op = "form_create" /\ response.status = 201
    /\ Has(response.data, "created_by") /\ response.data.created_by # response.user
    /\ \E f \in forms : f.id = response.instance /\ f.created_by = response.user
    /\ \E g \in forms : g.created_by # response.user /\ FieldsOf(g.id) # {}

\* the submissions a response shows
SubmissionsShown ==
    IF response.op \in SubmissionReads /\ response.status = 200
    THEN {response.body[i] : i \in DOMAIN response.body}
    ELSE {}

\* (C17) A submission is shown only to the user who created its form: what
\* submissions of a form, the submissions list and the submission get
\* return belongs to forms of the requesting user, and a request with no
\* identity is shown no submission.
C17_SubmissionsOwnerOnly ==
    /\ \A shown \in SubmissionsShown :
           /\ response.user \in Users
           /\ \E f \in forms : f.id = shown.form /\ f.created_by = response.user
    /\ response.op \in SubmissionReads /\ response.user = Anonymous
           => response.status \in {401, 403}
    /\ response.op = "submission_list"
           => {shown.id : shown \in SubmissionsShown}
                  = {s.id : s \in {t \in submissions : Owns(response.user, t.form)}}
    /\ response.op = "submission_retrieve" /\ response.user \in Users
           => (response.status = 200
                  <=> \E s \in submissions : s.id = response.pk /\ Owns(response.user, s.form))

\* (C17) witness: the other user asks for a stored submission with responses
\* and is answered 404
C17_Witness ==
    /\ response.op = "submission_retrieve" /\ response.status = 404
    /\ response.user \in Users
    /\ \E s \in submissions :
           /\ s.id = response.pk /\ ~Owns(response.user, s.form)
           /\ ResponsesOf(s.id) # {}

\* (C18) No submission row is inserted for a form whose active flag is
\* false at the moment of the INSERT, however an owner's deactivation
\* interleaves with the submit.
C18_ActiveAtCommit ==
    [][\A s \in submissions' \ submissions : IsActive(s.form)]_vars

\* (C19) The field of every stored response belongs to the form of the
\* response's submission.
C19_ResponseFieldOfSameForm ==
    \A r \in responses :
        \A f \in FieldById(r.field), sub \in SubmissionById(r.submission) :
            f.form = sub.form

\* the (field, value) pairs stored for a submission
Answers(submission_id) == {<<r.field, r.value>> : r \in ResponsesOf(submission_id)}

\* (C20) A stored submission is append-only: as long as its form exists, no
\* request changes its row (form, timestamp) or its set of (field, value)
\* responses.
C20_SubmissionAppendOnly ==
    [][\A s \in submissions :
           s.id # req.submission /\ FormById(s.form)' # {}
           => s \in submissions' /\ Answers(s.id)' = Answers(s.id)]_vars

\* (C20, amended) As long as its form exists, no request changes the row of
\* a stored submission (form, timestamp), and its set of (field, value)
\* responses changes only when a field is deleted (by itself or with its
\* form), which deletes the responses to that field; updating a field
\* changes no response.
C20_SubmissionKeptButForDeletedFields ==
    [][\A s \in submissions :
           s.id # req.submission /\ FormById(s.form)' # {}
           => /\ s \in submissions'
              /\ Answers(s.id)'
                     = {a \in Answers(s.id) : \E f \in fields' : f.id = a[1]}
              /\ response'.op = "field_update" => Answers(s.id)' = Answers(s.id)]_vars

\* (C20) witness: a field has been deleted and took one of the two responses
\* of a stored submission with it
C20_Witness ==
    /\ response.op = "field_destroy" /\ response.status = 204
    /\ seq_ids.response = 3
    /\ \E s \in submissions :
           /\ s.id # req.submission
           /\ Cardinality(ResponsesOf(s.id)) = 1
           /\ \A r \in ResponsesOf(s.id) : r.field # response.pk

\* (C21) The id, the form and the timestamp of a stored submission come from
\* the store and the URL alone: every submission row a step inserts carries
\* the next id of the sequence, the insert's own time and the form the
\* request was addressed to, whatever id, form or submitted_at its body named
C21_TimestampAssignedByStore ==
    [][\A s \in submissions' \ submissions :
           /\ s.id = seq_ids.submission
           /\ s.submitted_at = seq_ids.submission
           /\ s.form = req.pk]_vars

\* a submission stored for a request whose body named another id, another
\* form and another timestamp
C21_Witness ==
    /\ req.pc = "create_responses"
    /\ Has(req.extra, "submitted_at") /\ Has(req.extra, "id") /\ Has(req.extra, "form")
    /\ \E s \in SubmissionById(req.submission) :
           /\ s.submitted_at # req.extra.submitted_at
           /\ s.id # req.extra.id
           /\ s.form # req.extra.form

\* (C22) A reorder touches the order of one field and nothing else: after an
\* owner's update whose body carries only an order, the field is the row it
\* was with that order, every other field is as before, and the forms, the
\* submissions and the responses (those of the field among them) are unchanged
C22_ReorderChangesOnlyOrder ==
    [][(/\ response = NoResponse
        /\ response'.op = "field_update" /\ response'.status = 200
        /\ DOMAIN response'.data = {"order"})
       => /\ \E field \in FieldById(response'.pk) :
                 fields' = (fields \ {field})
                               \cup {[field EXCEPT !.order = response'.data.order]}
          /\ UNCHANGED <<forms, submissions, responses>>]_vars

\* a field that has a stored response was moved to another order
C22_Witness ==
    /\ response.op = "field_update" /\ response.status = 200
    /\ DOMAIN response.data = {"order"}
    /\ \E field \in FieldById(response.pk) :
           /\ field.order = response.data.order
           /\ field.order # field.id
           /\ \E r \in responses : r.field = field.id

\* (C23) Deactivating a form that is already inactive succeeds and changes
\* nothing: the owner's PATCH {"is_active": false} on an inactive form of
\* theirs is answered 200, the form is still there and still inactive, and
\* the fields, the submissions and the responses are what they were
C23_DeactivationIdempotent ==
    [][(/\ response = NoResponse
        /\ response'.op = "form_update"
        /\ Owns(response'.user, response'.pk) /\ ~IsActive(response'.pk)
        /\ \A key \in DOMAIN response'.data :
               key = "is_active" /\ ~response'.data[key])
       => /\ response'.status = 200
          /\ DOMAIN response'.data = {"is_active"}
          /\ \E f \in forms' : f.id = response'.pk
          /\ \A f \in forms' : f.id = response'.pk => ~f.is_active
          /\ {f \in forms' : f.id # response'.pk} = {f \in forms : f.id # response'.pk}
          /\ UNCHANGED <<fields, submissions, responses>>]_vars

\* a deactivation answered 200 on a form that has a submission with a
\* response; the form is inactive and the same request may come again
C23_Witness ==
    /\ response.op = "form_update" /\ response.status = 200
    /\ DOMAIN response.data = {"is_active"} /\ ~response.data.is_active
    /\ ~response.body.is_active
    /\ ~IsActive(response.pk)
    /\ \E s \in SubmissionsOf(response.pk) : ResponsesOf(s.id) # {}

\* (C26) No response is stored with an empty value: every response row a
\* step inserts has a non-empty value, and a submit whose payload has an
\* entry with an empty value is answered 400 and inserts nothing, whether
\* or not the entry's field is required and whatever the other entries hold
C26_NoEmptyValueStored ==
    [][/\ \A r \in responses' \ responses : r.value # <<>>
       /\ (/\ response = NoResponse /\ response'.op = "submit"
           /\ \E i \in DOMAIN response'.data : response'.data[i].value = <<>>)
          => /\ response'.status = 400
             /\ UNCHANGED <<submissions, responses, seq_ids>>]_vars

\* a rejected payload of two entries for one field that is not required,
\* the first with an empty value and the second with a value
C26_Witness ==
    /\ response.op = "submit" /\ response.status = 400
    /\ Len(response.data) = 2
    /\ response.data[1].field_id = response.data[2].field_id
    /\ \E f \in FieldById(response.data[1].field_id) :
           f.form = response.pk /\ ~f.required
    /\ response.data[1].value = <<>>
    /\ Strip(response.data[2].value) # <<>>
    /\ response.body[1] # {} /\ response.body[2] = {}
    /\ submissions = {} /\ responses = {}

\* (C25) No two users have the same email address, in any state that
\* register and profile-update requests can reach, however they interleave.
C25_EmailsUnique ==
    \A u1 \in users : \A u2 \in users : u1.email = u2.email => u1.id = u2.id

============================================================================
